---------------------------- MODULE Spec2Model ----------------------------
(***************************************************************************)
(* Model of the chat-completions client (src/src/client.rs), its older     *)
(* variant (src/src/api.rs) and the prompt DSL (src/src/xml_dsl.rs).       *)
(*                                                                         *)
(* Option<T> is modelled as a sequence of length at most one:              *)
(* None == << >> and Some(x) == << x >>.                                   *)
(* Byte strings and texts are sequences of one-character strings; the      *)
(* two bytes of a multi-byte UTF-8 character are the tokens "xC3" "xA9".   *)
(***************************************************************************)
EXTENDS Integers, Sequences, FiniteSets, TLC

VARIABLES
    \* --- one streaming call (client.rs execute, api.rs invoke)
    api,                  \* which entry point runs: "execute" (client.rs) or "invoke" (api.rs)
    pc,                   \* position of the async call
    logger,               \* TRUE when a delta callback is registered (self.logger is Some)
    response,             \* Option: the received response (status, headers), until
                          \* bytes_stream() consumes it
    rate_limit_metadata,  \* Option<RateLimitMetadata> computed at client.rs:638
    body,                 \* bytes the server sends as the response body
    pos,                  \* number of body bytes already delivered as segments
    nseg,                 \* number of segments delivered so far
    results,              \* the local `results: Vec<CompletionChunk>`
    logged,               \* the strings the callback has been invoked with, in order
    ret,                  \* what the call returned to its caller
    \* --- one ChatCompletionsResponse and a call of content()
    output,               \* ChatCompletionsResponse::output
    content_index,        \* Option: the argument of the last content() call
    content_ret,          \* Option: what that call returned
    \* --- one ConfigurationBuilder and a call of build()
    config,               \* the ConfigurationBuilder value
    build_messages,       \* the messages given to build()
    built,                \* Option: what build() returned (itself an Option)
    \* --- one prompt document and a call of Prompt::parse_from
    html,                 \* the rendered document: its <prompt> elements, in order
    prompt_name,          \* Option: the name given to parse_from
    prompt_ret,           \* Option: how parse_from ended
    \* --- two requests that run concurrently on one thread
    requests,             \* per request: the segments of its response, the index of
                          \* the next one, its local results, its logger (the
                          \* callback it holds) and its return
    callbacks             \* per callback: the strings it has been invoked with

execVars == <<api, pc, logger, response, rate_limit_metadata,
              body, pos, nseg, results, logged, ret>>

contentVars == <<output, content_index, content_ret>>

buildVars == <<config, build_messages, built>>

promptVars == <<html, prompt_name, prompt_ret>>

pairVars == <<requests, callbacks>>

vars == <<execVars, contentVars, buildVars, promptVars, pairVars>>

None == << >>

Some(x) == << x >>

IsSome(o) == Len(o) = 1

Unwrap(o) == o[1]

\* ------------------------------------------------------------------ bounds

\* most lines the server puts in one response body
MaxLines == 2

\* most network segments one body is cut into
MaxSegments == 2

\* ------------------------------------------------------- text primitives

NL == "\n"

CR == "\r"

\* the literal "data: "
DataPrefix == <<"d", "a", "t", "a", ":", " ">>

\* the second byte of the two-byte character
is_continuation(b) == b = "xA9"

not_continuation(b) == ~is_continuation(b)

\* a variant that never fails: a byte that is not part of a character becomes
\* the replacement character
from_utf8_lossy(bytes) ==
    LET n == Len(bytes)
        paired(i) ==
            \/ bytes[i] = "xC3" /\ i < n /\ is_continuation(bytes[i + 1])
            \/ is_continuation(bytes[i]) /\ i > 1 /\ bytes[i - 1] = "xC3"
        chars == [i \in 1..n |->
                     IF bytes[i] = "xC3" /\ paired(i) THEN "U+00E9"
                     ELSE IF is_continuation(bytes[i]) /\ paired(i) THEN "xA9"
                     ELSE IF bytes[i] \in {"xC3", "xA9"} THEN "U+FFFD"
                     ELSE bytes[i]]
    IN  Some(SelectSeq(chars, not_continuation))

\* String::from_utf8 on one segment: ASCII bytes map to themselves, the pair
\* xC3 xA9 is one character, and a lead byte without its continuation byte (or a
\* continuation byte without its lead byte) is an error
from_utf8(bytes) ==
    LET n == Len(bytes)
        wellFormed ==
            \A i \in 1..n :
                /\ (bytes[i] = "xC3") => (i < n /\ is_continuation(bytes[i + 1]))
                /\ is_continuation(bytes[i]) => (i > 1 /\ bytes[i - 1] = "xC3")
        chars == [i \in 1..n |-> IF bytes[i] = "xC3" THEN "U+00E9" ELSE bytes[i]]
    IN  IF wellFormed THEN Some(SelectSeq(chars, not_continuation)) ELSE None

\* str::split_inclusive('\n'): pieces that each end with the newline, but the last
RECURSIVE split_inclusive(_)
split_inclusive(text) ==
    IF text = << >> THEN << >>
    ELSE LET nls == {i \in 1..Len(text) : text[i] = NL}
             k   == IF nls = {} THEN Len(text)
                    ELSE CHOOSE i \in nls : \A j \in nls : i <= j
         IN  <<SubSeq(text, 1, k)>> \o split_inclusive(SubSeq(text, k + 1, Len(text)))

\* the closure of str::lines: strip one "\n", and then one "\r" before it
strip_line_ending(piece) ==
    IF piece # << >> /\ piece[Len(piece)] = NL
    THEN LET l == SubSeq(piece, 1, Len(piece) - 1)
         IN  IF l # << >> /\ l[Len(l)] = CR THEN SubSeq(l, 1, Len(l) - 1) ELSE l
    ELSE piece

\* str::lines
lines(text) ==
    LET pieces == split_inclusive(text)
    IN  [i \in 1..Len(pieces) |-> strip_line_ending(pieces[i])]

\* str::starts_with
starts_with(line, prefix) ==
    /\ Len(line) >= Len(prefix)
    /\ SubSeq(line, 1, Len(prefix)) = prefix

\* ---------------------------------------------------------- chunk parsing

Whitespace == {" ", CR, NL}

IndexDigits == {"0", "1", "2"}

digit_value(c) == IF c = "0" THEN 0 ELSE IF c = "1" THEN 1 ELSE 2

ContentChars == {"h", "y", "U+00E9"}

RECURSIVE trim_start(_)
trim_start(s) ==
    IF s # << >> /\ s[1] \in Whitespace THEN trim_start(Tail(s)) ELSE s

RECURSIVE trim_end(_)
trim_end(s) ==
    IF s # << >> /\ s[Len(s)] \in Whitespace THEN trim_end(SubSeq(s, 1, Len(s) - 1)) ELSE s

\* the choices between the braces: pairs (index digit, content character),
\* "_" standing for a delta without content
RECURSIVE parse_choices(_)
parse_choices(s) ==
    IF s = << >> THEN Some(<< >>)
    ELSE IF Len(s) >= 2 /\ s[1] \in IndexDigits /\ s[2] \in ContentChars \cup {"_"}
         THEN LET rest == parse_choices(SubSeq(s, 3, Len(s)))
                  choice == [index |-> digit_value(s[1]),
                             delta |-> [content |-> IF s[2] = "_" THEN None ELSE Some(s[2])]]
              IN  IF IsSome(rest) THEN Some(<<choice>> \o Unwrap(rest)) ELSE None
         ELSE None

\* serde_json::from_str::<CompletionChunk>: one object, surrounding whitespace
\* allowed, anything else (a truncated object, "[DONE]", trailing text) an error
from_str(json_part) ==
    LET s == trim_end(trim_start(json_part))
    IN  IF Len(s) >= 2 /\ s[1] = "{" /\ s[Len(s)] = "}"
        THEN LET cs == parse_choices(SubSeq(s, 2, Len(s) - 1))
             IN  IF IsSome(cs) THEN Some([choices |-> Unwrap(cs)]) ELSE None
        ELSE None

\* a variant that reads the first choice only
collect_content_first(choices) ==
    IF choices # << >> /\ IsSome(choices[1].delta.content)
    THEN Unwrap(choices[1].delta.content)
    ELSE ""

\* response.choices.iter().filter_map(|x| x.delta.content.clone()).collect::<String>()
RECURSIVE collect_content(_)
collect_content(choices) ==
    IF choices = << >> THEN ""
    ELSE (IF IsSome(choices[1].delta.content) THEN Unwrap(choices[1].delta.content) ELSE "")
         \o collect_content(Tail(choices))

\* the body of `for line in text.lines()`: the chunk the line adds, if any
decode_line(line) ==
    IF starts_with(line, DataPrefix)
    THEN from_str(SubSeq(line, Len(DataPrefix) + 1, Len(line)))
    ELSE None

\* ------------------------------------------------------------- wire data

\* a `data: ` event line with the given payload and line ending
DataLine(payload, ending) == DataPrefix \o payload \o ending

\* an event with one choice
EventLine == DataLine(<<"{", "0", "h", "}">>, <<NL>>)

\* an event with three choices, the first without content, the second with a
\* two-byte character, ended by CR LF
EventLineCRLF == DataLine(<<"{", "2", "_", "0", "xC3", "xA9", "1", "y", "}">>, <<CR, NL>>)

\* the end sentinel of the wire protocol
DoneLine == DataLine(<<"[", "D", "O", "N", "E", "]">>, <<NL>>)

\* a keep-alive comment
CommentLine == <<":", " ", "k", NL>>

\* the lines a server may send
Catalogue == {EventLine, EventLineCRLF, DoneLine, CommentLine}

RECURSIVE concat_all(_)
concat_all(ss) ==
    IF ss = << >> THEN << >> ELSE ss[1] \o concat_all(Tail(ss))

\* the response bodies: up to MaxLines catalogue lines
Bodies ==
    { concat_all(ls) : ls \in UNION { [1..n -> Catalogue] : n \in 0..MaxLines } }

Statuses == {200, 400, 401, 403, 404, 409, 418, 422, 429, 500}

\* reqwest::StatusCode::is_success
is_success(code) == 200 <= code /\ code < 300

NumericHeaders ==
    <<"retry-after", "retry-after-ms", "x-ratelimit-limit-requests",
      "x-ratelimit-limit-tokens", "x-ratelimit-remaining-requests",
      "x-ratelimit-remaining-tokens">>

TextHeaders == <<"x-ratelimit-reset-requests", "x-ratelimit-reset-tokens">>

\* the eight headers in the order from_response reads them
HeaderNames == NumericHeaders \o TextHeaders

HeaderSet == {HeaderNames[i] : i \in 1..Len(HeaderNames)}

\* the value a well-behaved server sends for a header
GoodValue(h) ==
    IF h = "x-ratelimit-reset-requests" THEN "1s"
    ELSE IF h = "x-ratelimit-reset-tokens" THEN "6m0s"
    ELSE "7"

\* header values: retry-after may also be non-numeric, and x-ratelimit-reset-tokens
\* may hold bytes that HeaderValue::to_str rejects ("xFF")
HeaderValues(h) ==
    IF h = "retry-after" THEN {None, Some("7"), Some("soon")}
    ELSE IF h = "x-ratelimit-reset-tokens" THEN {None, Some("6m0s"), Some("xFF")}
    ELSE {None, Some(GoodValue(h))}

\* the header maps a response may carry
HeaderMaps ==
    { [h \in HeaderSet |->
          IF h = "retry-after" THEN a
          ELSE IF h = "x-ratelimit-reset-tokens" THEN b
          ELSE IF h \in present THEN Some(GoodValue(h)) ELSE None] :
        a \in HeaderValues("retry-after"),
        b \in HeaderValues("x-ratelimit-reset-tokens"),
        present \in SUBSET (HeaderSet \ {"retry-after", "x-ratelimit-reset-tokens"}) }

\* -------------------------------------------------------- status and headers

\* ApiError::from_code
from_code(code) ==
    CASE code = 400 -> Some("BadRequestError")
      [] code = 401 -> Some("AuthenticationError")
      [] code = 403 -> Some("PermissionDeniedError")
      [] code = 404 -> Some("NotFoundError")
      [] code = 409 -> Some("ConflictError")
      [] code = 422 -> Some("UnprocessableEntityError")
      [] code = 429 -> Some("RateLimitError")
      [] OTHER -> None

\* Results: <<"Ok", value>> or <<"Err", error>>
Ok(x) == <<"Ok", x>>

Err(e) == <<"Err", e>>

IsOk(r) == r[1] = "Ok"

\* Result::ok
ok(r) == IF IsOk(r) THEN Some(r[2]) ELSE None

\* HeaderValue::to_str
to_str(v) == IF v = "xFF" THEN Err("ToStrError") ELSE Ok(v)

\* usize::from_str
usize_from_str(s) ==
    IF s = "7" THEN Ok(7) ELSE IF s = "0" THEN Ok(0) ELSE Err("ParseIntError")

\* headers().get(name).ok_or(MissingHeader(name))?.to_str()?.to_string()
header_string(hm, name) ==
    IF hm[name] = None THEN Err("MissingHeader") ELSE to_str(Unwrap(hm[name]))

\* a variant that reads an absent header as "0"
from_response_defaults(hm) ==
    LET str(h) == IF hm[h] = None THEN Ok("0") ELSE to_str(Unwrap(hm[h]))
        isNumeric(h) == \E i \in 1..Len(NumericHeaders) : NumericHeaders[i] = h
        num(h) == IF IsOk(str(h)) THEN usize_from_str(str(h)[2]) ELSE str(h)
    IN  IF \E h \in HeaderSet : ~IsOk(str(h)) THEN Err("ToStrError")
        ELSE IF \E h \in HeaderSet : isNumeric(h) /\ ~IsOk(num(h)) THEN Err("ParseIntError")
        ELSE Ok([h \in HeaderSet |-> IF isNumeric(h) THEN num(h)[2] ELSE str(h)[2]])

\* RateLimitMetadata::from_response: the eight strings are read first, in
\* order, then the six numbers are parsed; the first failure is returned
from_response(hm) ==
    LET strs == [h \in HeaderSet |-> header_string(hm, h)]
        nums == [h \in HeaderSet |-> IF IsOk(strs[h]) THEN usize_from_str(strs[h][2])
                                     ELSE strs[h]]
        isNumeric(h) == \E i \in 1..Len(NumericHeaders) : NumericHeaders[i] = h
    IN  IF \E h \in HeaderSet : ~IsOk(strs[h])
        THEN LET i == CHOOSE i \in 1..Len(HeaderNames) :
                          /\ ~IsOk(strs[HeaderNames[i]])
                          /\ \A j \in 1..(i - 1) : IsOk(strs[HeaderNames[j]])
             IN  strs[HeaderNames[i]]
        ELSE IF \E h \in HeaderSet : isNumeric(h) /\ ~IsOk(nums[h])
        THEN Err("ParseIntError")
        ELSE Ok([h \in HeaderSet |-> IF isNumeric(h) THEN nums[h][2] ELSE strs[h][2]])

\* ------------------------------------------------------------ the decoder

\* a variant that leaves the loop at the first `data: ` line that does not parse
RECURSIVE for_each_line_abort(_, _, _)
for_each_line_abort(ls, acc, hasLogger) ==
    IF ls = << >> THEN acc
    ELSE LET parsed == decode_line(ls[1])
         IN  IF IsSome(parsed)
             THEN for_each_line_abort(
                      Tail(ls),
                      [results |-> Append(acc.results, Unwrap(parsed)),
                       logged  |-> IF hasLogger
                                   THEN Append(acc.logged,
                                               collect_content(Unwrap(parsed).choices))
                                   ELSE acc.logged],
                      hasLogger)
             ELSE IF starts_with(ls[1], DataPrefix) THEN acc
             ELSE for_each_line_abort(Tail(ls), acc, hasLogger)

\* a variant that ends the pass at the end sentinel of the wire protocol
RECURSIVE for_each_line_done(_, _, _)
for_each_line_done(ls, acc, hasLogger) ==
    IF ls = << >> THEN acc
    ELSE IF ls[1] = DataPrefix \o <<"[", "D", "O", "N", "E", "]">> THEN acc
    ELSE LET parsed == decode_line(ls[1])
             next ==
                 IF IsSome(parsed)
                 THEN [results |-> Append(acc.results, Unwrap(parsed)),
                       logged  |-> IF hasLogger
                                   THEN Append(acc.logged,
                                               collect_content(Unwrap(parsed).choices))
                                   ELSE acc.logged]
                 ELSE acc
         IN  for_each_line_done(Tail(ls), next, hasLogger)

\* client.rs:645-660 (api.rs:166-180): one pass of `for line in text.lines()`
\* over the lines of one segment, from the accumulated (results, logged)
RECURSIVE for_each_line(_, _, _)
for_each_line(ls, acc, hasLogger) ==
    IF ls = << >> THEN acc
    ELSE LET parsed == decode_line(ls[1])
             next ==
                 IF IsSome(parsed)
                 THEN [results |-> Append(acc.results, Unwrap(parsed)),
                       logged  |-> IF hasLogger
                                   THEN Append(acc.logged,
                                               collect_content(Unwrap(parsed).choices))
                                   ELSE acc.logged]
                 ELSE acc
         IN  for_each_line(Tail(ls), next, hasLogger)

Pending == [kind |-> "Pending", error |-> "", output |-> << >>, rate_limit_metadata |-> None]

Failed(e) == [kind |-> "Err", error |-> e, output |-> << >>, rate_limit_metadata |-> None]

Returned(out, meta) == [kind |-> "Ok", error |-> "", output |-> out, rate_limit_metadata |-> meta]

Panicked == [kind |-> "Panic", error |-> "assertion failed", output |-> << >>,
             rate_limit_metadata |-> None]

\* errors of the transport, as reqwest reports them
SendErrors == {"reqwest::Error(connect)", "reqwest::Error(timeout)"}

StreamErrors == {"reqwest::Error(body)", "reqwest::Error(timeout)"}

\* ------------------------------------------------- the response aggregator

\* most chunks a response under aggregation holds
MaxChunks == 3

\* a choice of a chunk
Choice(i, c) == [index |-> i, delta |-> [content |-> c]]

\* the chunks a response may hold
ChunkCatalogue ==
    { [choices |-> <<Choice(0, Some("Hel"))>>],
      [choices |-> <<Choice(1, Some("Yo"))>>],
      [choices |-> <<Choice(0, Some("lo"))>>],
      [choices |-> <<Choice(0, None)>>],
      [choices |-> <<Choice(1, Some("Yo")), Choice(0, Some("Hel")), Choice(1, Some("!"))>>],
      [choices |-> << >>] }

ChunkLists == UNION { [1..n -> ChunkCatalogue] : n \in 0..MaxChunks }

\* the indexes content() is asked for
Indexes == 0..2

\* String concatenation of a Vec<String>: join("")
RECURSIVE join(_)
join(strs) ==
    IF strs = << >> THEN "" ELSE strs[1] \o join(Tail(strs))

\* a variant of the inner closure that looks at the first choice only
filter_map_first(choices, index) ==
    IF choices = << >> THEN << >>
    ELSE IF choices[1].index = index THEN choices[1].delta.content ELSE << >>

\* client.rs:688-696: the inner filter_map over one chunk's choices, collected
RECURSIVE filter_map_choices(_, _)
filter_map_choices(choices, index) ==
    IF choices = << >> THEN << >>
    ELSE (IF choices[1].index = index THEN choices[1].delta.content ELSE None)
         \o filter_map_choices(Tail(choices), index)

\* client.rs:685-698: the flat_map over the chunks, collected
RECURSIVE flat_map_chunks(_, _)
flat_map_chunks(chunks, index) ==
    IF chunks = << >> THEN << >>
    ELSE filter_map_choices(chunks[1].choices, index)
         \o flat_map_chunks(Tail(chunks), index)

\* ChatCompletionsResponse::content
content(chunks, index) == join(flat_map_chunks(chunks, index))

ContentInit ==
    /\ output \in ChunkLists
    /\ content_index = None
    /\ content_ret = None

ContentIdle ==
    /\ output = << >>
    /\ content_index = None
    /\ content_ret = None

\* a call of content(index) on the response
Content(index) ==
    /\ content_index' = Some(index)
    /\ content_ret' = Some(content(output, index))
    /\ UNCHANGED output
    /\ UNCHANGED <<execVars, buildVars, promptVars, pairVars>>

\* ------------------------------------------------ the configuration builder

\* most messages given to one build()
MaxMessages == 2

\* the fields of ConfigurationBuilder and of ChatCompletionsBody besides model
OptionFields ==
    {"stream", "temperature", "n", "max_tokens", "top_p", "frequency_penalty",
     "presence_penalty", "logprobs", "top_logprobs", "response_format", "stop", "seed"}

ConfigFields == {"model"} \cup OptionFields

\* the values the callers of the builder give each field
FieldValues(f) ==
    CASE f = "model" -> {"gpt-4", "m"}
      [] f = "stream" -> {TRUE}
      [] f = "temperature" -> {"0.5"}
      [] f = "n" -> {2}
      [] f = "max_tokens" -> {64}
      [] f = "top_p" -> {"0.9"}
      [] f = "frequency_penalty" -> {"-1.0"}
      [] f = "presence_penalty" -> {"1.5"}
      [] f = "logprobs" -> {TRUE}
      [] f = "top_logprobs" -> {5}
      [] f = "response_format" -> {[type |-> "json_object"]}
      [] f = "stop" -> {<<"END">>}
      [] f = "seed" -> {42}

\* ConfigurationBuilder::default(): every field None
DefaultConfig == [f \in ConfigFields |-> None]

\* the messages a caller may pass
MessageCatalogue ==
    { [role |-> "system", content |-> "be brief"],
      [role |-> "user", content |-> "hi"] }

MessageLists == UNION { [1..n -> MessageCatalogue] : n \in 0..MaxMessages }

\* ChatCompletionsBody::new: the model and the messages, every other field None
ChatCompletionsBody_new(model, messages) ==
    [f \in ConfigFields \cup {"messages"} |->
        IF f = "messages" THEN messages
        ELSE IF f = "model" THEN model
        ELSE None]

\* the fields build() copies from the configuration onto the new body
CopiedFields ==
    {"stream", "temperature", "n", "max_tokens", "top_p", "frequency_penalty",
     "presence_penalty", "logprobs", "response_format", "stop"}

\* a variant that falls back to a default model, as the prompt DSL does
build_default_model(cfg, messages) ==
    LET model == IF cfg["model"] = None THEN "gpt-3.5-turbo" ELSE Unwrap(cfg["model"])
        chat_request == ChatCompletionsBody_new(model, messages)
    IN  Some([f \in DOMAIN chat_request |->
                 IF f \in CopiedFields THEN cfg[f] ELSE chat_request[f]])

\* ConfigurationBuilder::build
build(cfg, messages) ==
    IF cfg["model"] = None THEN None
    ELSE LET chat_request == ChatCompletionsBody_new(Unwrap(cfg["model"]), messages)
         IN  Some([f \in DOMAIN chat_request |->
                      IF f \in CopiedFields THEN cfg[f] ELSE chat_request[f]])

BuildInit ==
    /\ config = DefaultConfig
    /\ build_messages = << >>
    /\ built = None

BuildIdle == BuildInit

\* what every builder method does: one field set to Some(value), the others kept
set_field(cfg, f, v) == [cfg EXCEPT ![f] = Some(v)]

\* ConfigurationBuilder::with_model, client.rs:104-107
with_model ==
    /\ built = None
    /\ \E v \in FieldValues("model") : config' = set_field(config, "model", v)
    /\ UNCHANGED <<build_messages, built>>
    /\ UNCHANGED <<execVars, contentVars, promptVars, pairVars>>

\* ConfigurationBuilder::with_stream, client.rs:108-111
with_stream ==
    /\ built = None
    /\ \E v \in FieldValues("stream") : config' = set_field(config, "stream", v)
    /\ UNCHANGED <<build_messages, built>>
    /\ UNCHANGED <<execVars, contentVars, promptVars, pairVars>>

\* ConfigurationBuilder::with_temperature, client.rs:112-115
with_temperature ==
    /\ built = None
    /\ \E v \in FieldValues("temperature") : config' = set_field(config, "temperature", v)
    /\ UNCHANGED <<build_messages, built>>
    /\ UNCHANGED <<execVars, contentVars, promptVars, pairVars>>

\* ConfigurationBuilder::with_n, client.rs:116-119
with_n ==
    /\ built = None
    /\ \E v \in FieldValues("n") : config' = set_field(config, "n", v)
    /\ UNCHANGED <<build_messages, built>>
    /\ UNCHANGED <<execVars, contentVars, promptVars, pairVars>>

\* ConfigurationBuilder::with_max_tokens, client.rs:120-123
with_max_tokens ==
    /\ built = None
    /\ \E v \in FieldValues("max_tokens") : config' = set_field(config, "max_tokens", v)
    /\ UNCHANGED <<build_messages, built>>
    /\ UNCHANGED <<execVars, contentVars, promptVars, pairVars>>

\* ConfigurationBuilder::with_top_p, client.rs:124-127
with_top_p ==
    /\ built = None
    /\ \E v \in FieldValues("top_p") : config' = set_field(config, "top_p", v)
    /\ UNCHANGED <<build_messages, built>>
    /\ UNCHANGED <<execVars, contentVars, promptVars, pairVars>>

\* ConfigurationBuilder::with_frequency_penalty, client.rs:128-131
with_frequency_penalty ==
    /\ built = None
    /\ \E v \in FieldValues("frequency_penalty") : config' = set_field(config, "frequency_penalty", v)
    /\ UNCHANGED <<build_messages, built>>
    /\ UNCHANGED <<execVars, contentVars, promptVars, pairVars>>

\* ConfigurationBuilder::with_presence_penalty, client.rs:132-135
with_presence_penalty ==
    /\ built = None
    /\ \E v \in FieldValues("presence_penalty") : config' = set_field(config, "presence_penalty", v)
    /\ UNCHANGED <<build_messages, built>>
    /\ UNCHANGED <<execVars, contentVars, promptVars, pairVars>>

\* ConfigurationBuilder::with_logprobs, client.rs:136-139
with_logprobs ==
    /\ built = None
    /\ \E v \in FieldValues("logprobs") : config' = set_field(config, "logprobs", v)
    /\ UNCHANGED <<build_messages, built>>
    /\ UNCHANGED <<execVars, contentVars, promptVars, pairVars>>

\* ConfigurationBuilder::with_response_format, client.rs:140-143
with_response_format ==
    /\ built = None
    /\ \E v \in FieldValues("response_format") : config' = set_field(config, "response_format", v)
    /\ UNCHANGED <<build_messages, built>>
    /\ UNCHANGED <<execVars, contentVars, promptVars, pairVars>>

\* ConfigurationBuilder::with_stop, client.rs:144-147
with_stop ==
    /\ built = None
    /\ \E v \in FieldValues("stop") : config' = set_field(config, "stop", v)
    /\ UNCHANGED <<build_messages, built>>
    /\ UNCHANGED <<execVars, contentVars, promptVars, pairVars>>

\* top_logprobs has no builder method: the public field is assigned (client.rs:60)
set_top_logprobs ==
    /\ built = None
    /\ \E v \in FieldValues("top_logprobs") : config' = set_field(config, "top_logprobs", v)
    /\ UNCHANGED <<build_messages, built>>
    /\ UNCHANGED <<execVars, contentVars, promptVars, pairVars>>

\* seed has no builder method: the public field is assigned (client.rs:87)
set_seed ==
    /\ built = None
    /\ \E v \in FieldValues("seed") : config' = set_field(config, "seed", v)
    /\ UNCHANGED <<build_messages, built>>
    /\ UNCHANGED <<execVars, contentVars, promptVars, pairVars>>

\* a call of build(messages), which consumes the builder
Build(messages) ==
    /\ built = None
    /\ build_messages' = messages
    /\ built' = Some(build(config, messages))
    /\ UNCHANGED config
    /\ UNCHANGED <<execVars, contentVars, promptVars, pairVars>>

\* --------------------------------------------------------- the prompt DSL

\* most <prompt> elements in one document
MaxPrompts == 2

\* the attributes internal_parse_html_dsl reads from a <prompt> element
PromptAttrs ==
    {"name", "model", "temperature", "max-tokens", "top-p", "frequency-penalty",
     "presence-penalty", "response-format"}

\* a <message> element: its role attribute and its inner markup
MessageElement(role, inner) == [role |-> role, inner_html |-> inner]

\* the message lists a <prompt> element may hold
MessageElementLists ==
    { << >>,
      <<MessageElement(None, <<" ", "h", "i", NL>>)>>,
      <<MessageElement(Some("SYSTEM"), <<"b", "e">>), MessageElement(None, <<"h", "i">>)>>,
      <<MessageElement(Some("bogus"), <<"h", "i">>)>> }

\* the <prompt> elements a document may hold: name and model vary
PromptElements ==
    { [attrs |-> [a \in PromptAttrs |->
                     IF a = "name" THEN name ELSE IF a = "model" THEN model ELSE None],
       messages |-> ms] :
        name \in {None, Some("x"), Some("y")},
        model \in {None, Some("a"), Some("b")},
        ms \in MessageElementLists }

\* the documents: up to MaxPrompts <prompt> elements, in document order
Documents == UNION { [1..n -> PromptElements] : n \in 0..MaxPrompts }

\* the names parse_from is asked for
LookupNames == {"x", "y", "z"}

\* the attributes a document may write on a <prompt> element: those the
\* compiler reads and five more, which an HTML element may carry as well
DocumentAttrs == PromptAttrs \cup {"stream", "n", "logprobs", "top-logprobs", "stop"}

\* the values a document gives an attribute: absent, well-formed, or (for the
\* attributes that are parsed) present and malformed
AttrValues(a) ==
    CASE a = "name" -> {Some("x")}
      [] a = "model" -> {None, Some("m")}
      [] a = "temperature" -> {None, Some("0.5"), Some("hot")}
      [] a = "max-tokens" -> {None, Some("64"), Some("6.5")}
      [] a = "top-p" -> {None, Some("1.0"), Some("1,0")}
      [] a = "frequency-penalty" -> {None, Some("-1.5"), Some("")}
      [] a = "presence-penalty" -> {None, Some("2.0"), Some(" 2.0")}
      [] a = "response-format" -> {None, Some("Json-Object"), Some("text"), Some("xml")}
      [] a = "stream" -> {None, Some("false")}
      [] a = "n" -> {None, Some("2")}
      [] a = "logprobs" -> {None, Some("true")}
      [] a = "top-logprobs" -> {None, Some("5")}
      [] a = "stop" -> {None, Some("END")}

\* a system message and a message without a role
TwoMessages ==
    <<MessageElement(Some("system"), <<"b", "e">>), MessageElement(None, <<"h", "i">>)>>

\* the attributes of an element named "x": the parsed ones as given, the five
\* others each present exactly when it is in `others`
ElementAttrs(model, temperature, max_tokens, top_p, frequency_penalty, presence_penalty, response_format, others) ==
    [a \in DocumentAttrs |->
        CASE a = "name" -> Some("x")
          [] a = "model" -> model
          [] a = "temperature" -> temperature
          [] a = "max-tokens" -> max_tokens
          [] a = "top-p" -> top_p
          [] a = "frequency-penalty" -> frequency_penalty
          [] a = "presence-penalty" -> presence_penalty
          [] a = "response-format" -> response_format
          [] OTHER -> IF a \in others
                      THEN CHOOSE v \in AttrValues(a) : v # None
                      ELSE None]

\* elements whose parsed attributes vary, and elements whose other attributes vary
AttributeElements ==
    { [attrs |-> ElementAttrs(m, t, mt, tp, fp, pp, rf, {}), messages |-> TwoMessages] :
        m \in AttrValues("model"), t \in AttrValues("temperature"),
        mt \in AttrValues("max-tokens"), tp \in AttrValues("top-p"),
        fp \in AttrValues("frequency-penalty"), pp \in AttrValues("presence-penalty"),
        rf \in AttrValues("response-format") }
    \cup
    { [attrs |-> ElementAttrs(Some("m"), Some("0.5"), Some("64"), None, None, None, None,
                             others),
       messages |-> TwoMessages] :
        others \in SUBSET (DocumentAttrs \ PromptAttrs) }

\* the role attributes a <message> element may carry
RoleAttrs ==
    {None, Some("system"), Some("SYSTEM"), Some("sYsTeM"), Some("assistant"),
     Some("User"), Some("bogus"), Some("Tool"), Some("")}

\* three indented lines, the second indented two further
IndentedLines ==
    <<" ", " ", "l", "i", "n", "e", "1", NL,
      " ", " ", " ", " ", "l", "i", "n", "e", "2", NL,
      " ", " ", "l", "i", "n", "e", "3">>

\* the inner markup a <message> element may hold
InnerHtmls ==
    { <<"h", "i">>,
      <<NL, " ", " ", "h", "i", NL, " ", " ", " ", "y", "o", NL>>,
      IndentedLines }

MessageElements ==
    { MessageElement(r, <<"h", "i">>) : r \in RoleAttrs }
    \cup { MessageElement(None, inner) : inner \in InnerHtmls }

\* elements named "x" whose messages vary: one or two messages
MessagesElements ==
    { [attrs |-> [a \in DocumentAttrs |-> IF a = "name" THEN Some("x") ELSE None],
       messages |-> ms] :
        ms \in UNION { [1..n -> MessageElements] : n \in 1..2 } }

\* the documents that hold one <prompt> element
ElementDocuments == { <<pe>> : pe \in AttributeElements \cup MessagesElements }

\* str::to_lowercase on the strings the documents use: the spellings that
\* differ from their lowercase form are listed, every other string is lowercase
to_lowercase(s) ==
    IF s \in {"SYSTEM", "System", "sYsTeM"} THEN "system"
    ELSE IF s \in {"USER", "User"} THEN "user"
    ELSE IF s \in {"ASSISTANT", "Assistant"} THEN "assistant"
    ELSE IF s \in {"JSON-OBJECT", "Json-Object"} THEN "json-object"
    ELSE IF s \in {"JSON_OBJECT", "Json_Object"} THEN "json_object"
    ELSE IF s \in {"TEXT", "Text"} THEN "text"
    ELSE IF s = "Tool" THEN "tool"
    ELSE s

\* a variant that takes an unrecognized string for the user role
Role_from_default(string) ==
    LET l == to_lowercase(string)
    IN  IF l = "system" THEN Some("System")
        ELSE IF l = "assistant" THEN Some("Assistant")
        ELSE Some("User")

\* api::Role::from
Role_from(string) ==
    LET l == to_lowercase(string)
    IN  IF l = "system" THEN Some("System")
        ELSE IF l = "assistant" THEN Some("Assistant")
        ELSE IF l = "user" THEN Some("User")
        ELSE None

\* Option::unwrap_or
unwrap_or(o, d) == IF IsSome(o) THEN Unwrap(o) ELSE d

\* str::trim
trim(s) == trim_end(trim_start(s))

\* api::ChatRequest::default()
ChatRequest_default ==
    [messages |-> << >>, model |-> "gpt-3.5-turbo-1106", stream |-> Some(TRUE),
     temperature |-> None, n |-> None, max_tokens |-> Some(4096), top_p |-> None,
     frequency_penalty |-> None, presence_penalty |-> None, logprobs |-> None,
     response_format |-> None, stop |-> None]

\* str::parse::<f32>().ok(); an f32 is written as its number of tenths. A
\* string with a space, a comma or a letter, and the empty string, do not parse
parse_f32(s) ==
    CASE s = "0.5" -> Some(5)
      [] s = ".5" -> Some(5)
      [] s = "1" -> Some(10)
      [] s = "1.0" -> Some(10)
      [] s = "2.0" -> Some(20)
      [] s = "-1.5" -> Some(-15)
      [] OTHER -> None

\* str::parse::<i32>().ok(); a fraction, a space or a letter does not parse
parse_i32(s) ==
    CASE s = "64" -> Some(64)
      [] s = "+64" -> Some(64)
      [] s = "1" -> Some(1)
      [] s = "2" -> Some(2)
      [] OTHER -> None

\* Option::and_then with one of the parsers above
and_then_f32(o) == IF IsSome(o) THEN parse_f32(Unwrap(o)) ELSE None

\* a variant that falls back to the default max_tokens when the parse fails
and_then_i32_default(o) ==
    IF o = None THEN None
    ELSE IF IsSome(parse_i32(Unwrap(o))) THEN parse_i32(Unwrap(o))
    ELSE Some(4096)

and_then_i32(o) == IF IsSome(o) THEN parse_i32(Unwrap(o)) ELSE None

\* xml_dsl.rs:93-101: the response-format attribute
response_format_of(o) ==
    IF o = None THEN None
    ELSE LET x == to_lowercase(Unwrap(o))
         IN  IF x = "json-object" THEN Some([type |-> "json_object"])
             ELSE IF x = "json_object" THEN Some([type |-> "json_object"])
             ELSE IF x = "text" THEN Some([type |-> "text"])
             ELSE None

\* xml_dsl.rs:105: the role of a message element; None when unwrap() panics
message_role(me) == Role_from(unwrap_or(me.role, "user"))

\* xml_dsl.rs:104-109: one message element compiled (its role is valid)
compile_message(me) ==
    [role |-> Unwrap(message_role(me)), content |-> trim(me.inner_html)]

\* xml_dsl.rs:80-121: the closure of filter_map on one <prompt> element that
\* has a name and whose message roles are all valid
compile_prompt(pe) ==
    LET name == Unwrap(pe.attrs["name"])
        request ==
            [ChatRequest_default EXCEPT
                !.messages = [i \in 1..Len(pe.messages) |-> compile_message(pe.messages[i])],
                !.model = unwrap_or(pe.attrs["model"], "gpt-3.5-turbo"),
                !.temperature = and_then_f32(pe.attrs["temperature"]),
                !.max_tokens = and_then_i32(pe.attrs["max-tokens"]),
                !.top_p = and_then_f32(pe.attrs["top-p"]),
                !.frequency_penalty = and_then_f32(pe.attrs["frequency-penalty"]),
                !.presence_penalty = and_then_f32(pe.attrs["presence-penalty"]),
                !.response_format = response_format_of(pe.attrs["response-format"])]
    IN  [name |-> name, request |-> request]

\* the closure panics on this element: it has a name (line 81 did not return
\* early) and one of its messages has no valid role
panics_on(pe) ==
    /\ pe.attrs["name"] # None
    /\ \E i \in 1..Len(pe.messages) : message_role(pe.messages[i]) = None

EmptyMap == [k \in {} |-> None]

\* HashMap::insert: the value of an existing key is replaced
insert(map, k, v) == [x \in (DOMAIN map) \cup {k} |-> IF x = k THEN v ELSE map[x]]

\* HashMap::get
get(map, k) == IF k \in DOMAIN map THEN Some(map[k]) ELSE None

\* a variant that keeps an element without a name, under the empty name
RECURSIVE collect_prompts_unnamed(_, _)
collect_prompts_unnamed(elements, map) ==
    IF elements = << >> THEN map
    ELSE LET pe == elements[1]
         IN  IF pe.attrs["name"] = None
             THEN collect_prompts_unnamed(
                      Tail(elements),
                      insert(map, "", [name |-> "", request |-> ChatRequest_default]))
             ELSE LET p == compile_prompt(pe)
                  IN  collect_prompts_unnamed(Tail(elements), insert(map, p.name, p))

\* xml_dsl.rs:78-122: select, filter_map and collect::<HashMap<_, _>>, element
\* by element in document order
RECURSIVE collect_prompts(_, _)
collect_prompts(elements, map) ==
    IF elements = << >> THEN map
    ELSE LET pe == elements[1]
         IN  IF pe.attrs["name"] = None
             THEN collect_prompts(Tail(elements), map)
             ELSE LET p == compile_prompt(pe)
                  IN  collect_prompts(Tail(elements), insert(map, p.name, p))

\* internal_parse_html_dsl: Err("panic") when a message role is invalid
internal_parse_html_dsl(doc) ==
    IF \E i \in 1..Len(doc) : panics_on(doc[i])
    THEN Err("panic")
    ELSE Ok(collect_prompts(doc, EmptyMap))

PromptInit ==
    /\ html \in Documents
    /\ prompt_name = None
    /\ prompt_ret = None

\* a document of one element
ElementInit ==
    /\ html \in ElementDocuments
    /\ prompt_name = None
    /\ prompt_ret = None

PromptIdle ==
    /\ html = << >>
    /\ prompt_name = None
    /\ prompt_ret = None

\* Prompt::parse_from(html_source, prompt_name, globals), xml_dsl.rs:36-42
parse_from(name) ==
    /\ prompt_ret = None
    /\ prompt_name' = Some(name)
    /\ LET parsed == internal_parse_html_dsl(html)
       IN  prompt_ret' = IF IsOk(parsed)
                         THEN Some([kind |-> "Returned", value |-> get(parsed[2], name)])
                         ELSE Some([kind |-> "Panic", value |-> None])
    /\ UNCHANGED html
    /\ UNCHANGED <<execVars, contentVars, buildVars, pairVars>>

\* ------------------------------------------------- two concurrent requests

\* the segment lists a response may arrive as
SegmentLists ==
    { <<EventLine>>,
      <<EventLine, EventLineCRLF>>,
      <<EventLineCRLF \o EventLine>>,
      <<DoneLine, EventLine>>,
      <<SubSeq(EventLineCRLF, 1, 11), SubSeq(EventLineCRLF, 12, Len(EventLineCRLF))>> }

\* ChatCompletionsRequestBuilder::build: the request holds a clone of the
\* builder's logger, which is the same callback (Rc::clone)
ChatCompletionsRequestBuilder_build(builder, segments) ==
    [segments |-> segments, next |-> 1, results |-> << >>, logger |-> builder.logger,
     ret |-> None]

\* two builders: the second is either a clone of the first (#[derive(Clone)],
\* client.rs:543: the logger is the same Rc) or was given a callback of its own
Builders ==
    { <<[logger |-> Some(1)], [logger |-> Some(1)]>>,
      <<[logger |-> Some(1)], [logger |-> Some(2)]>> }

PairInit ==
    /\ \E builders \in Builders, s1 \in SegmentLists, s2 \in SegmentLists :
          requests = <<ChatCompletionsRequestBuilder_build(builders[1], s1),
                       ChatCompletionsRequestBuilder_build(builders[2], s2)>>
    /\ callbacks = <<<< >>, << >>>>

PairIdle ==
    /\ requests = << >>
    /\ callbacks = << >>

\* client.rs:642-661: the stream of request r yields its next segment, which
\* is processed up to the next await; the callback is borrowed for each call
PollSegment(r) ==
    /\ requests[r].ret = None
    /\ requests[r].next <= Len(requests[r].segments)
    /\ LET text == from_utf8(requests[r].segments[requests[r].next])
           c    == Unwrap(requests[r].logger)
       IN  IF IsSome(text)
           THEN LET acc == for_each_line(lines(Unwrap(text)),
                                         [results |-> requests[r].results,
                                          logged |-> callbacks[c]], TRUE)
                IN  /\ requests' = [requests EXCEPT ![r].next = @ + 1,
                                                    ![r].results = acc.results]
                    /\ callbacks' = [callbacks EXCEPT ![c] = acc.logged]
           ELSE /\ requests' = [requests EXCEPT ![r].next = @ + 1,
                                                ![r].ret = Some(Failed("FromUtf8Error"))]
                /\ UNCHANGED callbacks
    /\ UNCHANGED <<execVars, contentVars, buildVars, promptVars>>

\* client.rs:662-663: the stream of request r has ended and the call returns
PollEnd(r) ==
    /\ requests[r].ret = None
    /\ requests[r].next > Len(requests[r].segments)
    /\ requests' = [requests EXCEPT ![r].ret = Some(Returned(requests[r].results, None))]
    /\ UNCHANGED callbacks
    /\ UNCHANGED <<execVars, contentVars, buildVars, promptVars>>

\* ------------------------------------------------------------- the call

ExecInit ==
    /\ api \in {"execute", "invoke"}
    /\ logger \in (IF api = "invoke" THEN {TRUE} ELSE BOOLEAN)
    /\ pc = "start"
    /\ response = None
    /\ rate_limit_metadata = None
    /\ body = << >>
    /\ pos = 0
    /\ nseg = 0
    /\ results = << >>
    /\ logged = << >>
    /\ ret = Pending
    /\ ContentIdle
    /\ BuildIdle
    /\ PromptIdle
    /\ PairIdle

\* client.rs:629-634 (api.rs:149-154): the request is sent; the await ends
\* with a transport error or with the response's status line and headers
Send ==
    /\ pc = "start"
    /\ \/ \E e \in SendErrors :
            /\ pc' = "failed"
            /\ ret' = Failed(e)
            /\ UNCHANGED response
       \/ \E s \in Statuses, hm \in HeaderMaps :
            /\ pc' = "received"
            /\ response' = Some([status |-> s, headers |-> hm])
            /\ UNCHANGED ret
    /\ UNCHANGED <<api, logger, rate_limit_metadata, body, pos, nseg, results, logged>>
    /\ UNCHANGED <<contentVars, buildVars, promptVars, pairVars>>

\* client.rs:635-641: the status check, the metadata, and the body turned to a stream
execute_on_response ==
    LET error == from_code(Unwrap(response).status)
    IN  IF IsSome(error)
        THEN /\ pc' = "failed"
             /\ ret' = Failed(Unwrap(error))
             /\ UNCHANGED <<response, rate_limit_metadata, body>>
        ELSE /\ rate_limit_metadata' = ok(from_response(Unwrap(response).headers))
             /\ response' = None
             /\ body' \in Bodies
             /\ pc' = "streaming"
             /\ UNCHANGED ret

\* api.rs:155-162: the status is asserted to be a success
invoke_on_response ==
    IF ~is_success(Unwrap(response).status)
    THEN /\ pc' = "panicked"
         /\ ret' = Panicked
         /\ UNCHANGED <<response, rate_limit_metadata, body>>
    ELSE /\ response' = None
         /\ body' \in Bodies
         /\ pc' = "streaming"
         /\ UNCHANGED <<ret, rate_limit_metadata>>

OnResponse ==
    /\ pc = "received"
    /\ IF api = "execute" THEN execute_on_response ELSE invoke_on_response
    /\ UNCHANGED <<api, logger, pos, nseg, results, logged>>
    /\ UNCHANGED <<contentVars, buildVars, promptVars, pairVars>>

\* client.rs:642-661 (api.rs:163-181): the stream yields the next k bytes of
\* the body as one segment, which is decoded on its own
NextSegment(k) ==
    /\ pc = "streaming"
    /\ nseg < MaxSegments
    /\ pos + k <= Len(body)
    /\ LET chunk == SubSeq(body, pos + 1, pos + k)
           text  == from_utf8(chunk)
       IN  IF IsSome(text)
           THEN LET acc == for_each_line(lines(Unwrap(text)),
                                         [results |-> results, logged |-> logged], logger)
                IN  /\ results' = acc.results
                    /\ logged' = acc.logged
                    /\ UNCHANGED <<pc, ret>>
           ELSE /\ pc' = "failed"
                /\ ret' = Failed("FromUtf8Error")
                /\ UNCHANGED <<results, logged>>
    /\ pos' = pos + k
    /\ nseg' = nseg + 1
    /\ UNCHANGED <<api, logger, response, rate_limit_metadata, body>>
    /\ UNCHANGED <<contentVars, buildVars, promptVars, pairVars>>

\* a variant that returns what was decoded before the error
StreamFail_salvage ==
    /\ pc = "streaming"
    /\ ret' = Returned(results, rate_limit_metadata)
    /\ pc' = "done"
    /\ UNCHANGED <<api, logger, response, rate_limit_metadata, body, pos, nseg,
                   results, logged>>
    /\ UNCHANGED <<contentVars, buildVars, promptVars, pairVars>>

\* client.rs:643 (api.rs:164): the stream yields an error
StreamFail ==
    /\ pc = "streaming"
    /\ \E e \in StreamErrors : ret' = Failed(e)
    /\ pc' = "failed"
    /\ UNCHANGED <<api, logger, response, rate_limit_metadata, body, pos, nseg,
                   results, logged>>
    /\ UNCHANGED <<contentVars, buildVars, promptVars, pairVars>>

\* client.rs:662-663 (api.rs:182): the stream ends and the call returns
StreamEnd ==
    /\ pc = "streaming"
    /\ pos = Len(body)
    /\ pc' = "done"
    /\ ret' = Returned(results, rate_limit_metadata)
    /\ UNCHANGED <<api, logger, response, rate_limit_metadata, body, pos, nseg,
                   results, logged>>
    /\ UNCHANGED <<contentVars, buildVars, promptVars, pairVars>>

Init == ExecInit

Next ==
    \/ Send
    \/ OnResponse
    \/ \E k \in 1..(Len(body) - pos) : NextSegment(k)
    \/ StreamFail
    \/ StreamEnd

\* one streaming call
Spec == Init /\ [][Next]_vars

ExecIdle ==
    /\ api = "execute"
    /\ logger = FALSE
    /\ pc = "start"
    /\ response = None
    /\ rate_limit_metadata = None
    /\ body = << >>
    /\ pos = 0
    /\ nseg = 0
    /\ results = << >>
    /\ logged = << >>
    /\ ret = Pending

InitContent == ContentInit /\ ExecIdle /\ BuildIdle /\ PromptIdle /\ PairIdle

NextContent == \E index \in Indexes : Content(index)

\* content() on a response
SpecContent == InitContent /\ [][NextContent]_vars

InitBuild == BuildInit /\ ExecIdle /\ ContentIdle /\ PromptIdle /\ PairIdle

NextBuild ==
    \/ with_model
    \/ with_stream
    \/ with_temperature
    \/ with_n
    \/ with_max_tokens
    \/ with_top_p
    \/ with_frequency_penalty
    \/ with_presence_penalty
    \/ with_logprobs
    \/ with_response_format
    \/ with_stop
    \/ set_top_logprobs
    \/ set_seed
    \/ \E messages \in MessageLists : Build(messages)

\* a configuration built up and turned into a request body
SpecBuild == InitBuild /\ [][NextBuild]_vars

InitPrompts == PromptInit /\ ExecIdle /\ ContentIdle /\ BuildIdle /\ PairIdle

NextPrompts == \E name \in LookupNames : parse_from(name)

\* a prompt looked up in a document
SpecPrompts == InitPrompts /\ [][NextPrompts]_vars

InitPair == PairInit /\ ExecIdle /\ ContentIdle /\ BuildIdle /\ PromptIdle

NextPair ==
    \/ \E r \in 1..2 : PollSegment(r)
    \/ \E r \in 1..2 : PollEnd(r)

\* two requests polled in any order on one thread
SpecPair == InitPair /\ [][NextPair]_vars

InitElement == ElementInit /\ ExecIdle /\ ContentIdle /\ BuildIdle /\ PairIdle

\* one <prompt> element compiled and looked up
SpecElement == InitElement /\ [][NextPrompts]_vars

\* ====================================================================
\* Claims about the streaming call (specification Spec)
\* ====================================================================

\* what one pass over a whole text yields, from nothing
decode_text(text) ==
    for_each_line(lines(text), [results |-> << >>, logged |-> << >>], TRUE)

\* the chunk list of a body that arrives as one segment
OneSegmentChunks(b) == decode_text(Unwrap(from_utf8(b))).results

\* C1: line reassembly. However the body is cut into segments, a call that
\* returns yields the chunk list it yields when the body arrives as one segment.
C1_LineReassembly ==
    (pc = "done") => (ret.kind = "Ok" /\ ret.output = OneSegmentChunks(body))

\* a payload that is a well-formed chunk: an object whose inside is a row of
\* (index digit, content character) pairs
WellFormedPayload(w) ==
    /\ Len(w) >= 2
    /\ Len(w) % 2 = 0
    /\ w[1] = "{"
    /\ w[Len(w)] = "}"
    /\ \A i \in 2..(Len(w) - 1) :
          IF i % 2 = 0 THEN w[i] \in IndexDigits ELSE w[i] \in ContentChars \cup {"_"}

\* a received line that is a `data: ` line with a well-formed payload, which
\* whitespace may surround
WellFormedDataLine(line) ==
    /\ Len(line) >= Len(DataPrefix)
    /\ \A i \in 1..Len(DataPrefix) : line[i] = DataPrefix[i]
    /\ LET solid == {i \in (Len(DataPrefix) + 1)..Len(line) : line[i] \notin Whitespace}
       IN  /\ solid # {}
           /\ LET first == CHOOSE i \in solid : \A j \in solid : i <= j
                  last  == CHOOSE i \in solid : \A j \in solid : j <= i
              IN  WellFormedPayload(SubSeq(line, first, last))

\* the number of well-formed `data: ` lines among the lines of a text
WellFormedCount(ls) ==
    Cardinality({i \in DOMAIN ls : \E line \in {ls[i]} : WellFormedDataLine(line)})

\* C2: decoder resilience. A segment that is valid text never fails the call,
\* whatever its lines are; it adds exactly one chunk per well-formed `data: `
\* line, keeps what was decoded before, and fires the callback once per chunk added.
C2_DecoderResilience ==
    [][ (pc = "streaming" /\ pos' > pos)
        => \A text \in {from_utf8(SubSeq(body, pos + 1, pos'))} :
              IsSome(text)
              => \A ls \in {lines(Unwrap(text))} :
                    /\ pc' = "streaming"
                    /\ ret' = Pending
                    /\ Len(results') - Len(results) = WellFormedCount(ls)
                    /\ SubSeq(results', 1, Len(results)) = results
                    /\ Len(logged') - Len(logged)
                         = (IF logger THEN Len(results') - Len(results) ELSE 0) ]_vars

\* a sentinel line and an event line in one segment gave exactly one chunk
C2_Witness ==
    /\ pc = "done"
    /\ nseg = 1
    /\ body = DoneLine \o EventLine
    /\ Len(ret.output) = 1

\* the delta text of a chunk: the contents that are present, left to right
RECURSIVE PresentContents(_, _)
PresentContents(choices, n) ==
    IF n = 0 THEN ""
    ELSE PresentContents(choices, n - 1)
         \o (IF choices[n].delta.content = None THEN "" ELSE choices[n].delta.content[1])

\* C3: with a callback registered, the callback invocations correspond one to
\* one and in order to the chunks appended, each with the concatenation of the
\* contents present in that chunk's choices; without one, nothing is delivered.
C3_CallbackPerChunk ==
    IF logger
    THEN /\ Len(logged) = Len(results)
         /\ \A i \in 1..Len(results) :
               logged[i] = PresentContents(results[i].choices, Len(results[i].choices))
    ELSE logged = << >>

\* two different chunks were decoded and delivered in arrival order
C3_Witness ==
    /\ logger
    /\ pc = "done"
    /\ body = EventLineCRLF \o EventLine
    /\ logged = <<"U+00E9y", "h">>
    /\ Len(results[1].choices) = 3

\* the error kind the status table gives a non-success status
TableKind(code) ==
    IF code = 400 THEN "BadRequestError"
    ELSE IF code = 401 THEN "AuthenticationError"
    ELSE IF code = 403 THEN "PermissionDeniedError"
    ELSE IF code = 404 THEN "NotFoundError"
    ELSE IF code = 409 THEN "ConflictError"
    ELSE IF code = 422 THEN "UnprocessableEntityError"
    ELSE IF code = 429 THEN "RateLimitError"
    ELSE "InternalServerError"

\* execute has received a response whose status is not 2xx
NonSuccessReceived ==
    /\ api = "execute"
    /\ pc = "received"
    /\ ~is_success(Unwrap(response).status)

\* C5: the status mapping is total over the non-success statuses. On every
\* non-2xx status execute fails with the kind the table lists for it, and with
\* InternalServerError when the table lists none.
C5_StatusMappingTotal ==
    [][ NonSuccessReceived
        => /\ pc' = "failed"
           /\ ret'.kind = "Err"
           /\ ret'.error = TableKind(Unwrap(response).status) ]_vars

\* C6: on a non-success status execute returns an error at once and never
\* turns the body into a stream: no segment is read, no chunk is decoded, no
\* callback fires.
C6_NoStreamOnErrorStatus ==
    [][ NonSuccessReceived
        => /\ pc' \notin {"streaming", "done"}
           /\ ret'.kind = "Err"
           /\ body' = << >> /\ pos' = 0 /\ nseg' = 0
           /\ results' = << >> /\ logged' = << >> ]_vars

\* the record the eight header values make when all are present and well-formed
MetadataOf(hm) ==
    [h \in HeaderSet |->
        IF h \in {"x-ratelimit-reset-requests", "x-ratelimit-reset-tokens"}
        THEN hm[h][1]
        ELSE IF hm[h][1] = "7" THEN 7 ELSE 0]

\* C7: rate-limit metadata is all or nothing. Metadata is present only if all
\* eight headers are present, and then every field holds its header's value; a
\* missing or malformed header gives none and never fails the call.
C7_MetadataAllOrNothing ==
    [][ (api = "execute" /\ pc = "received" /\ from_code(Unwrap(response).status) = None)
        => \A hm \in {Unwrap(response).headers} :
              /\ pc' = "streaming"
              /\ ret' = Pending
              /\ IF IsSome(rate_limit_metadata')
                 THEN /\ \A h \in HeaderSet : hm[h] # None
                      /\ rate_limit_metadata'[1] = MetadataOf(hm)
                 ELSE \E h \in HeaderSet : hm[h] \in {None, Some("soon"), Some("xFF")} ]_vars

\* a call whose response lacked metadata returned its chunks all the same
C7_Witness ==
    /\ api = "execute"
    /\ pc = "done"
    /\ ret.kind = "Ok"
    /\ ret.rate_limit_metadata = None
    /\ Len(ret.output) = 2

\* ------------- Claims about the response aggregator (specification SpecContent)

\* every choice of every chunk, in chunk arrival order and then in choice order
RECURSIVE AllChoices(_)
AllChoices(chunks) ==
    IF chunks = << >> THEN << >>
    ELSE chunks[1].choices \o AllChoices(Tail(chunks))

\* the choices of that index whose delta.content is present, in the same order
SelectedChoices(chunks, index) ==
    SelectSeq(AllChoices(chunks),
              LAMBDA choice : choice.index = index /\ IsSome(choice.delta.content))

\* the contents of a list of choices, each present, put end to end
RECURSIVE Concatenation(_)
Concatenation(choices) ==
    IF choices = << >> THEN ""
    ELSE Unwrap(choices[1].delta.content) \o Concatenation(Tail(choices))

\* the chunks [{0,"Hel"},{1,"Yo"},{0,"lo"}]
HelloYo ==
    << [choices |-> <<Choice(0, Some("Hel"))>>],
       [choices |-> <<Choice(1, Some("Yo"))>>],
       [choices |-> <<Choice(0, Some("lo"))>> ] >>

\* C4: content(index) is the concatenation, in chunk order and then in choice
\* order, of every present delta.content of every choice of that index over all
\* the chunks; it is "" when no choice has that index; the chunks
\* [{0,"Hel"},{1,"Yo"},{0,"lo"}] give "Hello", "Yo" and "" for 0, 1 and 2.
C4_ContentConcatenation ==
    IsSome(content_ret) =>
        \A index \in {Unwrap(content_index)} :
            /\ Unwrap(content_ret) = Concatenation(SelectedChoices(output, index))
            /\ (\A i \in 1..Len(AllChoices(output)) : AllChoices(output)[i].index # index)
                   => Unwrap(content_ret) = ""
            /\ output = HelloYo
                   => Unwrap(content_ret) =
                          (CASE index = 0 -> "Hello" [] index = 1 -> "Yo" [] OTHER -> "")

\* content(1) was asked of a response whose last chunk holds, in this order,
\* choices of index 1, 0 and 1, after a chunk of index 0
C4_Witness ==
    /\ output = << [choices |-> <<Choice(0, Some("lo"))>>],
                   [choices |-> <<Choice(0, None)>>],
                   [choices |-> <<Choice(1, Some("Yo")), Choice(0, Some("Hel")),
                                  Choice(1, Some("!"))>>] >>
    /\ content_index = Some(1)
    /\ content_ret = Some("Yo!")

\* ----------- Claims about the configuration builder (specification SpecBuild)

\* C8: build(messages) returns none whenever model is unset, whatever the
\* messages and the other fields are; when model is set it returns a body that
\* carries that model and the messages given.
C8_BuildNeedsModel ==
    IsSome(built) =>
        IF config["model"] = None
        THEN Unwrap(built) = None
        ELSE /\ IsSome(Unwrap(built))
             /\ Unwrap(Unwrap(built))["model"] = Unwrap(config["model"])
             /\ Unwrap(Unwrap(built))["messages"] = build_messages

\* build was called without a model, with every other field set and two messages
C8_Witness ==
    /\ config["model"] = None
    /\ \A f \in OptionFields : IsSome(config[f])
    /\ Len(build_messages) = 2
    /\ built = Some(None)

\* C9: when build succeeds, every field other than model is in the body with
\* exactly the value it has in the configuration, set or unset.
C9_FieldsPassThrough ==
    (IsSome(built) /\ IsSome(Unwrap(built))) =>
        \A f \in OptionFields : Unwrap(Unwrap(built))[f] = config[f]

\* ------------------- Claims about the prompt DSL (specification SpecPrompts)

\* the positions of the <prompt> elements of that name, in the document
NamedPositions(doc, name) == { i \in 1..Len(doc) : doc[i].attrs["name"] = Some(name) }

\* the least position of a non-empty set of positions
FirstPosition(positions) == CHOOSE i \in positions : \A j \in positions : i <= j

\* C10: the lookup of a name returns the first prompt in document order that
\* has this name, and none when no prompt has it; of two prompts of one name
\* the later one is never returned.
C10_FirstMatchWins ==
    (IsSome(prompt_ret) /\ Unwrap(prompt_ret).kind = "Returned") =>
        \A positions \in {NamedPositions(html, Unwrap(prompt_name))} :
            Unwrap(prompt_ret).value =
                (IF positions = {} THEN None
                 ELSE Some(compile_prompt(html[FirstPosition(positions)])))

\* the elements of a document that carry this name
NamedElements(doc, name) == { i \in 1..Len(doc) : doc[i].attrs["name"] = Some(name) }

\* C11: an unrecognized message role is fatal only for the prompt that holds
\* it. The compilation of the document does not abort; a prompt whose roles are
\* all valid is compiled and returned under its name, and a name whose only
\* prompts hold an invalid role is absent from the collection.
C11_InvalidRoleScoped ==
    IsSome(prompt_ret) =>
        \A named \in {NamedElements(html, Unwrap(prompt_name))} :
            /\ Unwrap(prompt_ret).kind = "Returned"
            /\ \A i \in named :
                  (named = {i} /\ ~panics_on(html[i]))
                      => Unwrap(prompt_ret).value = Some(compile_prompt(html[i]))
            /\ (\A i \in named : panics_on(html[i]))
                  => Unwrap(prompt_ret).value = None

\* ------------ Claims about one compiled element (specification SpecElement)

\* the attributes that are parsed into a typed field
TypedAttrs ==
    {"temperature", "max-tokens", "top-p", "frequency-penalty", "presence-penalty",
     "response-format"}

\* the request field an attribute sets
FieldOf(a) ==
    CASE a = "max-tokens" -> "max_tokens"
      [] a = "top-p" -> "top_p"
      [] a = "frequency-penalty" -> "frequency_penalty"
      [] a = "presence-penalty" -> "presence_penalty"
      [] a = "response-format" -> "response_format"
      [] a = "top-logprobs" -> "top_logprobs"
      [] OTHER -> a

\* what an attribute string denotes when it is well-formed for its attribute
\* (numbers with a fraction in tenths), and None when it is malformed
Denotes(a, s) ==
    CASE a = "max-tokens" -> (IF s = "64" THEN Some(64) ELSE None)
      [] a = "response-format" ->
            (IF s = "Json-Object" THEN Some([type |-> "json_object"])
             ELSE IF s = "text" THEN Some([type |-> "text"])
             ELSE None)
      [] a = "model" -> Some(s)
      [] a = "stream" -> (IF s = "false" THEN Some(FALSE) ELSE None)
      [] a = "n" -> (IF s = "2" THEN Some(2) ELSE None)
      [] a = "logprobs" -> (IF s = "true" THEN Some(TRUE) ELSE None)
      [] a = "top-logprobs" -> (IF s = "5" THEN Some(5) ELSE None)
      [] a = "stop" -> Some(<<s>>)
      [] OTHER ->
            (IF s = "0.5" THEN Some(5)
             ELSE IF s = "1.0" THEN Some(10)
             ELSE IF s = "-1.5" THEN Some(-15)
             ELSE IF s = "2.0" THEN Some(20)
             ELSE None)

\* the one element of the document was looked up by its name, and none of its
\* message roles is unrecognized
ElementLookedUp ==
    /\ IsSome(prompt_ret)
    /\ Len(html) = 1
    /\ prompt_name = html[1].attrs["name"]
    /\ \A i \in 1..Len(html[1].messages) :
          to_lowercase(unwrap_or(html[1].messages[i].role, "user"))
              \in {"system", "user", "assistant"}

RoundTripAttrs ==
    {"model", "stream", "temperature", "n", "max-tokens", "top-p", "frequency-penalty",
     "presence-penalty", "logprobs", "top-logprobs", "response-format", "stop"}

\* C13: compile round trip. Every attribute the element gives with a
\* well-formed value is set to that value in the compiled request, and the
\* messages are the element's message elements, as many and in the same order.
C13_CompileRoundTrip ==
    ElementLookedUp =>
        /\ Unwrap(prompt_ret).kind = "Returned"
        /\ IsSome(Unwrap(prompt_ret).value)
        /\ \A request \in {Unwrap(Unwrap(prompt_ret).value).request} :
              /\ \A a \in RoundTripAttrs :
                    \A given \in {html[1].attrs[a]} :
                        (IsSome(given) /\ IsSome(Denotes(a, Unwrap(given))))
                            => /\ FieldOf(a) \in DOMAIN request
                               /\ request[FieldOf(a)]
                                    = (IF a = "model" THEN Unwrap(given)
                                       ELSE Denotes(a, Unwrap(given)))
              /\ Len(request.messages) = Len(html[1].messages)
              /\ \A i \in 1..Len(html[1].messages) :
                    to_lowercase(request.messages[i].role)
                        = to_lowercase(unwrap_or(html[1].messages[i].role, "user"))

\* the number of blanks a line begins with
RECURSIVE LeadingWidth(_)
LeadingWidth(line) ==
    IF line # << >> /\ line[1] = " " THEN 1 + LeadingWidth(Tail(line)) ELSE 0

\* the least leading width among the lines that are not empty (0 without one)
CommonIndent(ls) ==
    LET widths == { LeadingWidth(ls[i]) : i \in { j \in DOMAIN ls : trim(ls[j]) # << >> } }
    IN  IF widths = {} THEN 0 ELSE CHOOSE w \in widths : \A v \in widths : w <= v

\* every line without its first CommonIndent characters
Deindent(ls) ==
    [i \in DOMAIN ls |->
        SubSeq(ls[i], (IF Len(ls[i]) < CommonIndent(ls) THEN Len(ls[i]) ELSE CommonIndent(ls)) + 1,
               Len(ls[i]))]

\* lines put together again, a newline between two lines
RECURSIVE JoinLines(_)
JoinLines(ls) ==
    IF ls = << >> THEN << >>
    ELSE IF Len(ls) = 1 THEN ls[1]
    ELSE ls[1] \o <<NL>> \o JoinLines(Tail(ls))

\* the content of a message: its inner markup with the common indentation of
\* its lines removed and without leading and trailing whitespace
DeindentedContent(inner) == trim(JoinLines(Deindent(lines(inner))))

\* C14: de-indentation. The content of a compiled message is its inner content
\* without leading and trailing whitespace and with the common indentation of
\* its non-empty lines removed from every line, so that the lines "  line1",
\* "    line2", "  line3" become "line1", "  line2", "line3".
C14_Deindentation ==
    (ElementLookedUp /\ Unwrap(prompt_ret).kind = "Returned")
        => \A i \in 1..Len(html[1].messages) :
              \A inner \in {html[1].messages[i].inner_html} :
                  \A given \in {Unwrap(Unwrap(prompt_ret).value).request.messages[i].content} :
                      /\ given = DeindentedContent(inner)
                      /\ inner = IndentedLines
                            => lines(given) = << <<"l", "i", "n", "e", "1">>,
                                                 <<" ", " ", "l", "i", "n", "e", "2">>,
                                                 <<"l", "i", "n", "e", "3">> >>

\* the role a role attribute stands for: User when absent, one of the three
\* roles when it spells its name in any letter case, and none otherwise
ResolvedRole(attr) ==
    IF attr = None THEN Some("User")
    ELSE IF Unwrap(attr) \in {"system", "SYSTEM", "System", "sYsTeM"} THEN Some("System")
    ELSE IF Unwrap(attr) \in {"user", "USER", "User"} THEN Some("User")
    ELSE IF Unwrap(attr) \in {"assistant", "ASSISTANT", "Assistant"} THEN Some("Assistant")
    ELSE None

\* C15: role resolution. An absent role attribute resolves to User, a present
\* one is matched against system, user and assistant whatever its letter case,
\* and a string outside these three never becomes a role: the compilation fails.
C15_RoleResolution ==
    (IsSome(prompt_ret) /\ Len(html) = 1 /\ prompt_name = html[1].attrs["name"])
        => \A ms \in {html[1].messages} :
              IF \A i \in 1..Len(ms) : IsSome(ResolvedRole(ms[i].role))
              THEN /\ Unwrap(prompt_ret).kind = "Returned"
                   /\ IsSome(Unwrap(prompt_ret).value)
                   /\ \A i \in 1..Len(ms) :
                         Unwrap(Unwrap(prompt_ret).value).request.messages[i].role
                             = Unwrap(ResolvedRole(ms[i].role))
              ELSE Unwrap(prompt_ret).kind = "Panic"

\* a message with role "sYsTeM" and one without a role compiled to System, User
C15_Witness ==
    /\ IsSome(prompt_ret)
    /\ Len(html) = 1
    /\ Len(html[1].messages) = 2
    /\ html[1].messages[1].role = Some("sYsTeM")
    /\ html[1].messages[2].role = None
    /\ Unwrap(prompt_ret).kind = "Returned"
    /\ IsSome(Unwrap(prompt_ret).value)
    /\ Unwrap(Unwrap(prompt_ret).value).request.messages[1].role = "System"
    /\ Unwrap(Unwrap(prompt_ret).value).request.messages[2].role = "User"

\* ------- Further claims about the streaming call (specification Spec)

\* C16: a transport error while the stream is read. A step that ends the
\* reading before the body is through delivers no segment, fails the call with
\* an error that carries no chunk and no metadata, and fires no callback; after
\* a failure the call takes no step at all.
C16_TransportErrorAborts ==
    [][ /\ pc # "failed"
        /\ (pc = "streaming" /\ pos' = pos /\ pos < Len(body))
              => /\ pc' = "failed"
                 /\ ret'.kind = "Err"
                 /\ ret'.error \in {"reqwest::Error(body)", "reqwest::Error(timeout)"}
                 /\ ret'.output = << >>
                 /\ ret'.rate_limit_metadata = None
                 /\ results' = results
                 /\ logged' = logged
                 /\ nseg' = nseg ]_vars

\* the stream failed after a chunk was decoded and delivered, with a line
\* still to come
C16_Witness ==
    /\ pc = "failed"
    /\ ret = Failed("reqwest::Error(body)")
    /\ body = EventLine \o EventLineCRLF
    /\ pos = Len(EventLine)
    /\ Len(results) = 1
    /\ logged = <<"h">>

\* the call ended because the deadline passed, which the transport reports as
\* its timeout error
DeadlineExceeded ==
    /\ ret.kind = "Err"
    /\ ret.error \in {"reqwest::Error(timeout)", "APITimeoutError"}

\* C17: when the timeout elapses before the headers arrive or before the
\* stream completes, the call fails with the kind APITimeoutError, which is
\* neither the connection error nor a kind derived from a status.
C17_TimeoutKind ==
    DeadlineExceeded => ret.error = "APITimeoutError"

\* the end sentinel as a received line
IsSentinel(line) == line = <<"d", "a", "t", "a", ":", " ", "[", "D", "O", "N", "E", "]">>

\* the lines of a segment without its sentinel lines
WithoutSentinels(ls) == SelectSeq(ls, LAMBDA line : ~IsSentinel(line))

\* C18: the end of the stream is the only termination signal. A `data: [DONE]`
\* line adds no chunk and fires no callback, the lines after it are decoded as
\* if it were not there and the call keeps reading; the call returns only when
\* the whole body was delivered, by the step that delivers nothing.
C18_EndOfStreamOnly ==
    [][ /\ (pc = "streaming" /\ pos' > pos)
            => \A text \in {from_utf8(SubSeq(body, pos + 1, pos'))} :
                  IsSome(text)
                  => \A ls \in {lines(Unwrap(text))} :
                        \A acc \in {for_each_line(WithoutSentinels(ls),
                                                  [results |-> results, logged |-> logged],
                                                  logger)} :
                            /\ pc' = "streaming"
                            /\ results' = acc.results
                            /\ logged' = acc.logged
        /\ (pc' = "done")
            => /\ pc = "streaming"
               /\ pos = Len(body)
               /\ pos' = pos
               /\ ret'.output = results ]_vars

\* the sentinel came in the first segment and an event in the second: the
\* event was decoded and delivered
C18_Witness ==
    /\ pc = "done"
    /\ logger
    /\ body = DoneLine \o EventLine
    /\ nseg = 2
    /\ Len(ret.output) = 1
    /\ logged = <<"h">>

\* ------------ Claims about concurrent requests (specification SpecPair)

\* a request that runs alone: what it returns and what its callback receives
RECURSIVE RunAlone(_, _)
RunAlone(segments, acc) ==
    IF segments = << >> THEN [acc EXCEPT !.kind = "Ok"]
    ELSE IF from_utf8(segments[1]) = None
         THEN [kind |-> "Err", results |-> << >>, logged |-> acc.logged]
    ELSE LET next == for_each_line(lines(Unwrap(from_utf8(segments[1]))),
                                   [results |-> acc.results, logged |-> acc.logged], TRUE)
         IN  RunAlone(Tail(segments),
                      [kind |-> "Pending", results |-> next.results, logged |-> next.logged])

\* C19: no mutable state is shared between concurrent requests. However the
\* segment steps of the two requests interleave, each request returns the
\* chunk list, and its callback has received the strings, of the same request
\* run alone; also when both were built from clones of one builder.
C19_NoSharedState ==
    (requests # << >> /\ \A r \in DOMAIN requests : IsSome(requests[r].ret))
        => \A r \in DOMAIN requests :
              \A alone \in {RunAlone(requests[r].segments,
                                     [kind |-> "Pending", results |-> << >>,
                                      logged |-> << >>])} :
                  /\ Unwrap(requests[r].ret).kind = alone.kind
                  /\ Unwrap(requests[r].ret).output = alone.results
                  /\ callbacks[Unwrap(requests[r].logger)] = alone.logged

\* ------- Claims about the decoding of a segment (specification Spec)

\* the bytes are text by themselves: each lead byte is followed by its
\* continuation byte and no continuation byte stands without its lead byte
ValidAlone(bytes) ==
    /\ \A i \in 1..Len(bytes) : bytes[i] = "xC3" => (i + 1 <= Len(bytes) /\ bytes[i + 1] = "xA9")
    /\ \A i \in 1..Len(bytes) : bytes[i] = "xA9" => (i - 1 >= 1 /\ bytes[i - 1] = "xC3")

\* C20: each segment is decoded as UTF-8 on its own. A segment whose bytes are
\* not valid by themselves makes the call return an error that carries none of
\* the chunks of the earlier segments, and the callback invocations already
\* made stay as they are.
C20_SegmentUtf8 ==
    [][ (pc = "streaming" /\ pos' > pos)
            => \A bytes \in {SubSeq(body, pos + 1, pos')} :
                  ~ValidAlone(bytes)
                      => /\ pc' = "failed"
                         /\ ret' = Failed("FromUtf8Error")
                         /\ ret'.output = << >>
                         /\ logged' = logged ]_vars

\* a body that is valid as a whole was cut inside its two-byte character, after
\* a chunk had been decoded and delivered: the call failed and the delivery stays
C20_Witness ==
    /\ pc = "failed"
    /\ ret = Failed("FromUtf8Error")
    /\ ValidAlone(body)
    /\ body = EventLine \o EventLineCRLF
    /\ nseg = 2
    /\ Len(results) = 1
    /\ logged = <<"h">>

\* -------- Claims about the compiled collection (specification SpecPrompts)

\* the names the <prompt> elements of a document carry
DocumentNames(doc) ==
    { Unwrap(doc[i].attrs["name"]) : i \in { j \in 1..Len(doc) : IsSome(doc[j].attrs["name"]) } }

\* C21: a <prompt> element without a name never appears in the compiled
\* collection, whatever else it holds. When the document compiles, the
\* collection has no more prompts than the document has distinct names, each
\* prompt is stored under its own name, and each comes from an element that
\* carries that name; so does the prompt a lookup returns.
C21_UnnamedNeverCompiled ==
    (IsSome(prompt_ret) /\ Unwrap(prompt_ret).kind = "Returned")
        => \A parsed \in {internal_parse_html_dsl(html)} :
              /\ IsOk(parsed)
              /\ \A map \in {parsed[2]} :
                    /\ DOMAIN map \subseteq DocumentNames(html)
                    /\ Cardinality(DOMAIN map) <= Cardinality(DocumentNames(html))
                    /\ \A k \in DOMAIN map :
                          /\ map[k].name = k
                          /\ \E i \in 1..Len(html) :
                                /\ html[i].attrs["name"] = Some(k)
                                /\ map[k] = compile_prompt(html[i])
                    /\ \A value \in {Unwrap(prompt_ret).value} :
                          IsSome(value)
                              => /\ Unwrap(value).name = Unwrap(prompt_name)
                                 /\ Unwrap(prompt_name) \in DocumentNames(html)
                                 /\ Unwrap(value) = map[Unwrap(prompt_name)]

\* an element without a name, holding a message of an unrecognized role, came
\* before an element named "y": "x" was not found and the collection has one prompt
C21_Witness ==
    /\ Len(html) = 2
    /\ html[1].attrs["name"] = None
    /\ html[1].attrs["model"] = Some("a")
    /\ html[1].messages = <<MessageElement(Some("bogus"), <<"h", "i">>)>>
    /\ html[2].attrs["name"] = Some("y")
    /\ prompt_name = Some("x")
    /\ prompt_ret = Some([kind |-> "Returned", value |-> None])
    /\ DOMAIN internal_parse_html_dsl(html)[2] = {"y"}

=============================================================================
